---- MODULE Spec2Model ----
(***************************************************************************)
(* State-machine model of the sticky-notes application (src/main.py):      *)
(* the application controller StickyNotesApp, the note windows StickyNote  *)
(* and the JSON file sticky_notes.json.                                    *)
(*                                                                         *)
(* The Qt widget calls the code relies on are modelled by what Qt does:    *)
(*   - a top-level widget starts with geometry (0, 0, 640, 480);           *)
(*   - QWidget.resize clamps the size to minimumSize();                    *)
(*   - bool(QPoint) is "not isNull()", bool(QSize) is "isValid()".         *)
(*   - show() of a window that was never moved lets the platform place it: *)
(*     the position it reports afterwards is the platform's choice.        *)
(* The hotkey callback runs on the thread of the keyboard package and only *)
(* emits note_requested; the slot runs later, from the Qt event loop.      *)
(***************************************************************************)
EXTENDS Integers, Sequences, FiniteSets

VARIABLES
    notes,       \* StickyNote.notes: the live list of note windows
    store,       \* content of sticky_notes.json: a sequence of records
    exists,      \* os.path.exists(NOTES_FILE)
    phase,       \* "stopped" | "loading" | "running": position of the process
    notes_data,  \* load_notes: the list json.load returned
    idx,         \* load_notes: position of the for loop in notes_data
    pending,     \* note_requested signals queued for the event loop
    event        \* the handler that ran last, and what it saw

vars == <<notes, store, exists, phase, notes_data, idx, pending, event>>

-----------------------------------------------------------------------------
(* Bounds of the model *)

MaxNotes == 3      \* notes alive at once
MaxStoreLen == 1   \* records in the file the first launch finds
MaxCoord == 100    \* largest x or y a note is dragged to
MaxNewCoord == 20  \* largest x or y the "+" button places a note at
MaxSize == 200     \* largest width or height a note is resized to
MaxPending == 1    \* hotkey requests queued at once

(* Program constants *)

MinimumWidth == 100    \* setMinimumSize(100, 100)
MinimumHeight == 100
InitialWidth == 200    \* self.resize(200, 200)
InitialHeight == 200
ResizeMargin == 25     \* self.resize_margin
ToolbarHeight == 40    \* pos.y() > 40
NewNoteOffset == 20    \* current_pos.x() + 20

-----------------------------------------------------------------------------
(* Values *)

None == [none |-> TRUE]

QPoint(px, py) == [x |-> px, y |-> py]
QSize(w, h) == [width |-> w, height |-> h]

\* bool(QPoint): a null point (0, 0) is falsy
QPointBool(p) == ~(p.x = 0 /\ p.y = 0)

\* bool(QSize): a valid size (both sides >= 0) is truthy
QSizeBool(s) == s.width >= 0 /\ s.height >= 0

\* bool(str): the empty string is falsy
StrBool(t) == t # ""

Max(a, b) == IF a >= b THEN a ELSE b

\* geometry of a top-level QWidget right after construction
DefaultGeometry == [x |-> 0, y |-> 0, width |-> 640, height |-> 480]

\* QWidget.move
WidgetMove(n, px, py) == [n EXCEPT !.x = px, !.y = py]

\* QWidget.show of a top-level window that was never moved: the window is
\* where the platform placed it
WidgetShow(n, place) == [n EXCEPT !.x = place.x, !.y = place.y]

\* variant: a resize that ignores minimumSize()
WidgetResize_unclamped(n, w, h) == [n EXCEPT !.width = w, !.height = h]

\* QWidget.resize after setMinimumSize(100, 100): the size is clamped from below
WidgetResize(n, w, h) ==
    [n EXCEPT !.width = Max(w, MinimumWidth), !.height = Max(h, MinimumHeight)]

\* the record save_notes writes for one note
NoteRecord(n) ==
    [text |-> n.text, x |-> n.x, y |-> n.y, width |-> n.width, height |-> n.height]

\* the world an operation works on: the live list and the file
World == [notes |-> notes, store |-> store, exists |-> exists]

-----------------------------------------------------------------------------
(* StickyNotesApp.save_notes: rewrite the file from the live list *)

save_notes(w) ==
    [w EXCEPT !.store = [i \in 1..Len(w.notes) |-> NoteRecord(w.notes[i])],
              !.exists = TRUE]

(* variant: a text change that is not saved at once *)
on_text_changed_no_save(w) == w

(* StickyNote.on_text_changed: app.sticky_notes_app is set before any note
   is constructed (line 25), so the hasattr test always succeeds *)
on_text_changed(w) == save_notes(w)

(* variant: the constructor sets the text, and so raises textChanged, even
   when initial_text is empty *)
StickyNoteInit_always_sets_text(w, initial_text, place) ==
    LET n0 == [text |-> "",
              x |-> DefaultGeometry.x, y |-> DefaultGeometry.y,
              width |-> DefaultGeometry.width, height |-> DefaultGeometry.height,
              dragging |-> FALSE, resizing |-> FALSE,
              start_pos |-> None, start_size |-> None]
        w1 == [w EXCEPT !.notes = Append(@, n0)]
        k  == Len(w1.notes)
        w2 == on_text_changed([w1 EXCEPT !.notes[k].text = initial_text])
        w3 == [w2 EXCEPT !.notes[k] = WidgetResize(@, InitialWidth, InitialHeight)]
    IN  [w3 EXCEPT !.notes[k] = WidgetShow(@, place)]

(* StickyNote.__init__; place is where the platform puts the new window *)
StickyNoteInit(w, initial_text, place) ==
    LET n0 == [text |-> "",
              x |-> DefaultGeometry.x, y |-> DefaultGeometry.y,
              width |-> DefaultGeometry.width, height |-> DefaultGeometry.height,
              dragging |-> FALSE, resizing |-> FALSE,
              start_pos |-> None, start_size |-> None]
        \* StickyNote.notes.append(self)
        w1 == [w EXCEPT !.notes = Append(@, n0)]
        k  == Len(w1.notes)
        \* if initial_text: self.text.setPlainText(initial_text) -> textChanged
        w2 == IF StrBool(initial_text)
              THEN on_text_changed([w1 EXCEPT !.notes[k].text = initial_text])
              ELSE w1
        \* self.resize(200, 200)
        w3 == [w2 EXCEPT !.notes[k] = WidgetResize(@, InitialWidth, InitialHeight)]
    IN  \* self.show()
        [w3 EXCEPT !.notes[k] = WidgetShow(@, place)]

(* StickyNotesApp.create_note_safe *)
create_note_safe(w, text, pos, size, place) ==
    LET w1 == StickyNoteInit(w, text, place)
        k  == Len(w1.notes)
        w2 == IF pos # None /\ QPointBool(pos)
              THEN [w1 EXCEPT !.notes[k] = WidgetMove(@, pos.x, pos.y)]
              ELSE w1
    IN  IF size # None /\ QSizeBool(size)
        THEN [w2 EXCEPT !.notes[k] = WidgetResize(@, size.width, size.height)]
        ELSE w2

(* variant: the new note is offset from the first note of the list *)
create_new_note_first(w, place) ==
    LET w1 == StickyNoteInit(w, "", place)
        k  == Len(w1.notes)
    IN  IF k > 1
        THEN [w1 EXCEPT !.notes[k] =
                 WidgetMove(@, w1.notes[1].x + NewNoteOffset,
                               w1.notes[1].y + NewNoteOffset)]
        ELSE w1

(* StickyNote.create_new_note (classmethod) *)
create_new_note(w, place) ==
    LET w1 == StickyNoteInit(w, "", place)
        k  == Len(w1.notes)
    IN  IF k > 1
        THEN [w1 EXCEPT !.notes[k] =
                 WidgetMove(@, w1.notes[k - 1].x + NewNoteOffset,
                               w1.notes[k - 1].y + NewNoteOffset)]
        ELSE w1

\* variant: drop the last element, whichever note was asked for
ListRemove_last(ns, i) == SubSeq(ns, 1, Len(ns) - 1)

\* list.remove(self): QObjects compare by identity, so exactly the element
\* that is self, the i-th, leaves the list
ListRemove(ns, i) ==
    [k \in 1..(Len(ns) - 1) |-> IF k < i THEN ns[k] ELSE ns[k + 1]]

(* variant: the file is written before the note leaves the list *)
delete_note_save_first(w, i) ==
    LET w1 == save_notes(w)
    IN  [w1 EXCEPT !.notes = ListRemove(@, i)]

(* StickyNote.delete_note *)
delete_note(w, i) ==
    save_notes([w EXCEPT !.notes = ListRemove(@, i)])

-----------------------------------------------------------------------------
(* Mouse handlers of one note *)

\* the test of mousePressEvent: the cursor is in the bottom-right corner
InResizeCorner(n, pos) ==
    /\ pos.x > n.width - ResizeMargin
    /\ pos.y > n.height - ResizeMargin
    /\ pos.y > ToolbarHeight

mousePressEvent(n, button, modifiers, pos) ==
    IF button = "left"
    THEN IF modifiers = "ctrl"
         THEN n   \* copy_with_feedback: clipboard and style only
         ELSE IF InResizeCorner(n, pos)
              THEN [n EXCEPT !.resizing = TRUE, !.start_pos = pos,
                             !.start_size = QSize(n.width, n.height)]
              ELSE [n EXCEPT !.dragging = TRUE, !.start_pos = pos]
    ELSE n

mouseMoveEvent(n, pos) ==
    IF n.resizing /\ n.start_pos # None
    THEN WidgetResize(n,
             Max(n.start_size.width + (pos.x - n.start_pos.x), MinimumWidth),
             Max(n.start_size.height + (pos.y - n.start_pos.y), MinimumHeight))
    ELSE IF n.dragging /\ n.start_pos # None
         THEN WidgetMove(n, n.x + (pos.x - n.start_pos.x),
                            n.y + (pos.y - n.start_pos.y))
         ELSE n

mouseReleaseEvent(n) ==
    [n EXCEPT !.dragging = FALSE, !.resizing = FALSE,
              !.start_pos = None, !.start_size = None]

-----------------------------------------------------------------------------
(* Inputs *)

\* what QTextEdit.toPlainText can return
Texts == {"", "a"}

\* records of a well-formed file: empty and non-empty text, the null point
\* and another one, a width below the minimum and a size above it
InitRecords ==
    { [text |-> "a", x |-> 30, y |-> 10, width |-> 50, height |-> 150],
      [text |-> "", x |-> 30, y |-> 10, width |-> 150, height |-> 100],
      [text |-> "a", x |-> 0, y |-> 0, width |-> 150, height |-> 100],
      [text |-> "", x |-> 0, y |-> 0, width |-> 50, height |-> 150] }

\* all sequences over S of length at most n
SeqsUpTo(S, n) == UNION { [1..k -> S] : k \in 0..n }

\* cursor positions of mouse events, in the coordinates of the note
Points == {QPoint(10, 10), QPoint(140, 90), QPoint(190, 190)}
Buttons == {"left", "right"}
Modifiers == {"none", "ctrl", "ctrl+shift"}

\* where the platform may place a new window
Placements == {QPoint(0, 0), QPoint(20, 0)}

InRange(n) ==
    /\ n.x \in 0..MaxCoord /\ n.y \in 0..MaxCoord
    /\ n.width <= MaxSize /\ n.height <= MaxSize

\* the file holds exactly the records of the live list
InSync == store = [i \in 1..Len(notes) |-> NoteRecord(notes[i])]

Ev(op, i, moved) ==
    [op |-> op, idx |-> i, moved |-> moved,
     synced |-> op \in {"delete", "text"} /\ InSync]

SetWorld(w) ==
    /\ notes' = w.notes
    /\ store' = w.store
    /\ exists' = w.exists

-----------------------------------------------------------------------------
(* The process: launch, load_notes, event loop, quit *)

\* StickyNotesApp.__init__ up to json.load in load_notes
Start ==
    /\ phase = "stopped"
    /\ phase' = "loading"
    /\ notes' = << >>
    /\ notes_data' = IF exists THEN store ELSE << >>
    /\ idx' = 1
    /\ pending' = 0
    /\ event' = Ev("start", 0, FALSE)
    /\ UNCHANGED <<store, exists>>

\* one iteration of the for loop of load_notes
LoadStep ==
    /\ phase = "loading"
    /\ idx <= Len(notes_data)
    /\ \E place \in Placements :
           LET d == notes_data[idx]
           IN  SetWorld(create_note_safe(World, d.text, QPoint(d.x, d.y),
                                         QSize(d.width, d.height), place))
    /\ idx' = idx + 1
    /\ event' = Ev("load", idx, FALSE)
    /\ UNCHANGED <<phase, notes_data, pending>>

\* load_notes returns (its locals are gone); StickyNotesApp.run enters the
\* event loop
Run ==
    /\ phase = "loading"
    /\ idx > Len(notes_data)
    /\ phase' = "running"
    /\ notes_data' = << >>
    /\ idx' = 1
    /\ event' = Ev("run", 0, FALSE)
    /\ UNCHANGED <<notes, store, exists, pending>>

\* StickyNotesApp.quit_app: save, then the event loop and the process end;
\* requests still queued are never delivered
quit_app ==
    /\ phase = "running"
    /\ LET w == save_notes(World)
       IN  /\ store' = w.store
           /\ exists' = w.exists
    /\ notes' = << >>
    /\ phase' = "stopped"
    /\ pending' = 0
    /\ event' = Ev("quit", 0, FALSE)
    /\ UNCHANGED <<notes_data, idx>>

-----------------------------------------------------------------------------
(* User events while the event loop runs *)

\* HotkeyHandler.trigger_note, on the thread of the keyboard package, any
\* time after the hotkey is registered: it only emits note_requested
trigger_note ==
    /\ phase \in {"loading", "running"}
    /\ pending < MaxPending
    /\ pending' = pending + 1
    /\ event' = Ev("trigger", 0, FALSE)
    /\ UNCHANGED <<notes, store, exists, phase, notes_data, idx>>

\* the event loop delivers one queued note_requested: create_note_safe()
note_requested ==
    /\ phase = "running"
    /\ pending > 0
    /\ Len(notes) < MaxNotes
    /\ \E place \in Placements :
           SetWorld(create_note_safe(World, "", None, None, place))
    /\ pending' = pending - 1
    /\ event' = Ev("hotkey", 0, FALSE)
    /\ UNCHANGED <<phase, notes_data, idx>>

\* tray "New Note": triggered(checked) -> create_note_safe(False); False is
\* falsy like "", so no text is set
new_note_action ==
    /\ phase = "running"
    /\ Len(notes) < MaxNotes
    /\ \E place \in Placements :
           SetWorld(create_note_safe(World, "", None, None, place))
    /\ event' = Ev("tray", 0, FALSE)
    /\ UNCHANGED <<phase, notes_data, idx, pending>>

\* the "+" button of note p
PlusButton(p) ==
    /\ phase = "running"
    /\ Len(notes) < MaxNotes
    /\ \E place \in Placements :
           LET w == create_new_note(World, place)
           IN  /\ w.notes[Len(w.notes)].x <= MaxNewCoord
               /\ w.notes[Len(w.notes)].y <= MaxNewCoord
               /\ SetWorld(w)
    /\ event' = Ev("plus", p, FALSE)
    /\ UNCHANGED <<phase, notes_data, idx, pending>>

\* the user edits the text of note i: textChanged -> on_text_changed
TextChanged(i, t) ==
    /\ phase = "running"
    /\ SetWorld(on_text_changed([World EXCEPT !.notes[i].text = t]))
    /\ event' = Ev("text", i, FALSE)
    /\ UNCHANGED <<phase, notes_data, idx, pending>>

\* the close button of note i
CloseButton(i) ==
    /\ phase = "running"
    /\ SetWorld(delete_note(World, i))
    /\ event' = Ev("delete", i, FALSE)
    /\ UNCHANGED <<phase, notes_data, idx, pending>>

MousePress(i, button, modifiers, pos) ==
    /\ phase = "running"
    /\ notes' = [notes EXCEPT ![i] = mousePressEvent(@, button, modifiers, pos)]
    /\ event' = Ev("press", i, FALSE)
    /\ UNCHANGED <<store, exists, phase, notes_data, idx, pending>>

MouseMove(i, pos) ==
    /\ phase = "running"
    /\ LET n == mouseMoveEvent(notes[i], pos)
       IN  /\ InRange(n)
           /\ notes' = [notes EXCEPT ![i] = n]
           /\ event' = Ev("move", i,
                  \/ NoteRecord(n) # NoteRecord(notes[i])
                  \/ (event.op = "move" /\ event.idx = i /\ event.moved))
    /\ UNCHANGED <<store, exists, phase, notes_data, idx, pending>>

MouseRelease(i) ==
    /\ phase = "running"
    /\ notes' = [notes EXCEPT ![i] = mouseReleaseEvent(@)]
    /\ event' = Ev("release", i, event.op = "move" /\ event.idx = i /\ event.moved)
    /\ UNCHANGED <<store, exists, phase, notes_data, idx, pending>>

-----------------------------------------------------------------------------
(* Specifications *)

NoEvent == [op |-> "none", idx |-> 0, synced |-> FALSE, moved |-> FALSE]

InitWith(stores) ==
    /\ notes = << >>
    /\ phase = "stopped"
    /\ notes_data = << >>
    /\ idx = 1
    /\ pending = 0
    /\ event = NoEvent
    /\ \/ exists = FALSE /\ store = << >>
       \/ exists = TRUE /\ store \in stores

\* the whole life of the application, without mouse gestures
Init == InitWith(SeqsUpTo(InitRecords, MaxStoreLen))

Next ==
    \/ Start
    \/ LoadStep
    \/ Run
    \/ quit_app
    \/ trigger_note
    \/ note_requested
    \/ new_note_action
    \/ \E p \in 1..Len(notes) : PlusButton(p)
    \/ \E i \in 1..Len(notes), t \in Texts : TextChanged(i, t)
    \/ \E i \in 1..Len(notes) : CloseButton(i)

Spec == Init /\ [][Next]_vars

\* the mouse gestures on the note window of a file of one record; the
\* handlers of a note read and write that note alone
MouseRecords ==
    InitRecords \cup
        { [text |-> "", x |-> 0, y |-> 0,
           width |-> InitialWidth, height |-> InitialHeight],
          [text |-> "a", x |-> 30, y |-> 10, width |-> 150, height |-> 50] }

InitMouse == InitWith({<< >>} \cup {<<r>> : r \in MouseRecords})

NextMouse ==
    \/ Start
    \/ LoadStep
    \/ Run
    \/ quit_app
    \/ \E i \in 1..Len(notes), t \in Texts : TextChanged(i, t)
    \/ \E i \in 1..Len(notes) : CloseButton(i)
    \/ \E i \in 1..Len(notes), b \in Buttons, m \in Modifiers, pos \in Points :
           MousePress(i, b, m, pos)
    \/ \E i \in 1..Len(notes), pos \in Points : MouseMove(i, pos)
    \/ \E i \in 1..Len(notes) : MouseRelease(i)

SpecMouse == InitMouse /\ [][NextMouse]_vars

-----------------------------------------------------------------------------
(* Helpers of the properties *)

LiveRecords == [i \in 1..Len(notes) |-> NoteRecord(notes[i])]

\* the multiset of the elements of a sequence
BagOf(s) ==
    [r \in {s[i] : i \in DOMAIN s} |-> Cardinality({i \in DOMAIN s : s[i] = r})]

AboveMinimum(d) ==
    \A i \in DOMAIN d : d[i].width >= MinimumWidth /\ d[i].height >= MinimumHeight

\* a sequence without its i-th element
Without(s, i) ==
    IF i \in DOMAIN s
    THEN [k \in 1..(Len(s) - 1) |-> IF k < i THEN s[k] ELSE s[k + 1]]
    ELSE s

\* the for loop of load_notes has ended and load_notes has not returned yet
LoadFinished == phase = "loading" /\ idx > Len(notes_data)

Last(s) == s[Len(s)]

-----------------------------------------------------------------------------
(* C1 as stated: when load_notes has read a file whose records all have
   width and height at or above the minimum (every file save_notes writes is
   such a file) into the empty live list of a fresh process, the multiset of
   {text, x, y, width, height} records of the live list equals the multiset
   of records in the file that was read. *)
C1_Original ==
    (LoadFinished /\ AboveMinimum(notes_data))
        => BagOf(LiveRecords) = BagOf(notes_data)

-----------------------------------------------------------------------------
(* C2 as stated: after delete_note(n) the file equals the file just before
   it minus the one record of n, in every reachable state. *)
C2_Original ==
    [][event'.op = "delete" => store' = Without(store, event'.idx)]_vars

(* C2 amended: when the file holds exactly the records of the live list just
   before delete_note(n), the file after it equals the file before it minus
   the one record of n; no other record is added, removed or changed. *)
C2_DeleteRemovesRecord ==
    [][(event'.op = "delete" /\ event'.synced)
          => (exists' /\ store' = Without(store, event'.idx))]_vars

\* a note was deleted while the file was in sync, and other records remain
C2_Witness ==
    /\ event.op = "delete"
    /\ event.synced
    /\ Len(store) >= 2
    /\ event.idx <= Len(store)

-----------------------------------------------------------------------------
(* C3: in the state right after a text-change event on any note, the file
   exists and holds exactly the records of all notes in the live list, in
   list order, with their current text and geometry. *)
C3_TextChangePersistsAll ==
    event.op = "text" => (exists /\ store = LiveRecords)

\* a text change on one of several notes, with the file stale before it
C3_Witness ==
    /\ event.op = "text"
    /\ ~event.synced
    /\ Len(notes) >= 2

-----------------------------------------------------------------------------
(* C4 as stated: after a mouse gesture that changed a note's position or
   size has ended (mouse release), the record of that note in the file
   carries the note's x, y, width and height. *)
C4_Original ==
    (event.op = "release" /\ event.moved)
        => /\ exists
           /\ event.idx \in DOMAIN store
           /\ store[event.idx].x = notes[event.idx].x
           /\ store[event.idx].y = notes[event.idx].y
           /\ store[event.idx].width = notes[event.idx].width
           /\ store[event.idx].height = notes[event.idx].height

-----------------------------------------------------------------------------
(* C5: delete_note(n) removes n and only n from the live list, keeps the
   other notes in their order and unchanged, and leaves the file equal to
   the records of exactly the notes that remain. *)
C5_DeleteKeepsOthers ==
    [][event'.op = "delete"
          => /\ notes' = Without(notes, event'.idx)
             /\ exists'
             /\ store' = [k \in 1..Len(notes') |-> NoteRecord(notes'[k])]]_vars

\* the first of three notes was deleted and two distinct notes remain
C5_Witness ==
    /\ event.op = "delete"
    /\ event.idx = 1
    /\ Len(notes) = 2
    /\ notes[1] # notes[2]

-----------------------------------------------------------------------------
(* C6 as stated: each hotkey trigger appends exactly one note with empty
   text and size 200x200 to the end of the live list and leaves every
   existing note and the file unchanged: a queued trigger leaves the queue
   only by such a step. *)
C6_Original ==
    [][pending' < pending
          => /\ pending' = pending - 1
             /\ Len(notes') = Len(notes) + 1
             /\ SubSeq(notes', 1, Len(notes)) = notes
             /\ Last(notes').text = ""
             /\ Last(notes').width = InitialWidth
             /\ Last(notes').height = InitialHeight
             /\ store' = store
             /\ exists' = exists]_vars

(* C6 amended: a hotkey trigger queues one request and changes neither the
   live list nor the file; each request the event loop delivers, and each
   tray "New Note" action, appends exactly one note with empty text and size
   200x200 to the end of the live list and leaves every existing note and
   the file unchanged; quit_app drops the requests still queued and they
   append no note. *)
C6_HotkeyBlankNote ==
    [][/\ event'.op = "trigger"
          => (notes' = notes /\ store' = store /\ exists' = exists)
       /\ event'.op = "quit" => (pending' = 0 /\ notes' = << >>)
       /\ event'.op \in {"hotkey", "tray"}
          => /\ Len(notes') = Len(notes) + 1
             /\ SubSeq(notes', 1, Len(notes)) = notes
             /\ Last(notes').text = ""
             /\ Last(notes').width = InitialWidth
             /\ Last(notes').height = InitialHeight
             /\ store' = store
             /\ exists' = exists]_vars

\* a queued hotkey request was delivered: a third note, beside a file with
\* records
C6_Witness ==
    /\ event.op = "hotkey"
    /\ pending = 0
    /\ Len(notes) = 3
    /\ exists
    /\ Len(store) >= 1

-----------------------------------------------------------------------------
(* C7 as stated: the note the "+" button of note p creates is at
   (p.x + 20, p.y + 20). *)
C7_Original ==
    (event.op = "plus" /\ Len(notes) >= 2)
        => /\ Last(notes).x = notes[event.idx].x + NewNoteOffset
           /\ Last(notes).y = notes[event.idx].y + NewNoteOffset

(* C7 amended: the note the "+" button of any note p creates is at
   (q.x + 20, q.y + 20), where q is the note that was last in the live list
   when the button was clicked, whichever note p is. *)
C7_OffsetFromLastNote ==
    (event.op = "plus" /\ Len(notes) >= 2)
        => /\ Last(notes).x = notes[Len(notes) - 1].x + NewNoteOffset
           /\ Last(notes).y = notes[Len(notes) - 1].y + NewNoteOffset

\* "+" was clicked on a note that is not the last one and is elsewhere
C7_Witness ==
    /\ event.op = "plus"
    /\ event.idx < Len(notes) - 1
    /\ notes[event.idx].x # notes[Len(notes) - 1].x

-----------------------------------------------------------------------------
(* C8 as stated: after any sequence of mouse press, move and release events
   no note has _dragging and _resizing true at once. *)
C8_Original ==
    \A i \in DOMAIN notes : ~(notes[i].dragging /\ notes[i].resizing)

-----------------------------------------------------------------------------
(* C9: every note in the live list has width >= 100 and height >= 100, and
   so has every record of a file the program has written. *)
C9_MinimumFloor ==
    [][/\ \A i \in DOMAIN notes' :
              notes'[i].width >= MinimumWidth /\ notes'[i].height >= MinimumHeight
       /\ (store' # store \/ exists' # exists) => AboveMinimum(store')]_vars

\* a resize with a cursor delta below the floor has acted on a 200-wide note
C9_Witness ==
    /\ event.op = "move"
    /\ notes[1].resizing
    /\ notes[1].start_size.width = InitialWidth
    /\ notes[1].width = MinimumWidth
    /\ notes[1].height = MinimumHeight

-----------------------------------------------------------------------------
(* C10 as stated: at every point during load_notes and once it has finished,
   the file holds the same records as the file that was read. *)
C10_Original ==
    phase = "loading" => store = notes_data

====
